---- MODULE Spec2Model ----
(***************************************************************************)
(* DisplayObjectContainer (pixi.js): the child list of a container, the    *)
(* parent and stage back-references of its children, and the mutation      *)
(* operations addChild, addChildAt, swapChildren, getChildIndex,           *)
(* setChildIndex, getChildAt, removeChild, removeChildAt, removeChildren,  *)
(* with the recursive setStageReference / removeStageReference.            *)
(*                                                                         *)
(* Every node is a DisplayObjectContainer.  Node Root is the Stage: the    *)
(* one container whose stage reference is itself from construction.        *)
(* A call is one action: it runs the whole method, the calls it makes      *)
(* included, and records in `last` what was called and what came back and  *)
(* in `pre` the tree as it was when the call was made.                     *)
(*                                                                         *)
(* The traversals of a display tree (updateTransform, getBounds,           *)
(* getLocalBounds, the width and height properties, _renderWebGL and       *)
(* _renderCanvas) work on `scene`, the fields they read and write, and are *)
(* recorded in `call` and `before` in the same way.                        *)
(***************************************************************************)
EXTENDS Integers, Sequences, FiniteSets, TLC

\* Number of display objects in the model (the Stage included).
NumNodes == 3

\* How many display objects may carry the _interactive flag.
MaxInteractive == 1

Nodes == 0 .. (NumNodes - 1)

\* The Stage, the root of the attached tree.
Root == 0

\* JavaScript null (child.parent = null, this.stage = null).
Null == -1

\* JavaScript undefined (an omitted argument, a bare `return;`).
Undefined == -2

\* The value returned is an array: the one held in the result's `removed`.
Array == -3

VARIABLES
    children,     \* children[n]: this.children of node n, a sequence of nodes
    parent,       \* parent[n]: n.parent, a node or Null
    stage,        \* stage[n]: n.stage, Root or Null
    interactive,  \* interactive[n]: n._interactive
    dirty,        \* Root.dirty, the stage's dirty flag
    last,         \* the last call: method, receiver, arguments, outcome
    pre,          \* children, parent, stage and dirty when the last call was made
    scene,        \* the fields the traversals use: visible, position, scale,
                  \* worldTransform, _bounds, ... of every node, Rectangle.EMPTY,
                  \* and the render session
    call,         \* the last traversal: method, receiver, argument, outcome
    before        \* scene when the last traversal was started

vars == <<children, parent, stage, interactive, dirty, last, pre, scene, call, before>>

\* The variables of the traversals, which no mutation operation touches.
sceneVars == <<scene, call, before>>

\* The variables of the mutation operations, which no traversal touches.
treeVars == <<children, parent, stage, interactive, dirty, last, pre>>

\* The mutable part of the heap a method works on.
Heap == [children |-> children, parent |-> parent, stage |-> stage, dirty |-> dirty]

Min(a, b) == IF a < b THEN a ELSE b
Max(a, b) == IF a > b THEN a ELSE b

(***************************************************************************)
(* Array.prototype primitives used by the container.                       *)
(***************************************************************************)

\* Array.prototype.indexOf: the first position (from 0) of x, or -1.
IndexOf(s, x) ==
    IF \E k \in 1 .. Len(s) : s[k] = x
    THEN (CHOOSE k \in 1 .. Len(s) : s[k] = x /\ \A j \in 1 .. (k - 1) : s[j] # x) - 1
    ELSE -1

\* The start position Array.prototype.splice really uses: a negative start
\* counts from the end, a start beyond the end is the end.
SpliceStart(len, start) ==
    IF start < 0 THEN Max(len + start, 0) ELSE Min(start, len)

\* children.splice(index, 0, x): the array after the insertion.
SpliceInsert(s, index, x) ==
    LET k == SpliceStart(Len(s), index)
    IN  SubSeq(s, 1, k) \o <<x>> \o SubSeq(s, k + 1, Len(s))

\* children.splice(start, count): the elements taken out.
SpliceRemoved(s, start, count) ==
    LET k == SpliceStart(Len(s), start)
        c == Min(Max(count, 0), Len(s) - k)
    IN  SubSeq(s, k + 1, k + c)

\* children.splice(start, count): the array that is left.
SpliceRest(s, start, count) ==
    LET k == SpliceStart(Len(s), start)
        c == Min(Max(count, 0), Len(s) - k)
    IN  SubSeq(s, 1, k) \o SubSeq(s, k + c + 1, Len(s))

(***************************************************************************)
(* Results.  A method returns [m, err, ret, removed]: the heap it leaves,  *)
(* "none" or the kind of exception it threw, the value returned (a node,   *)
(* an index, Undefined, or Array) and, for Array, the array returned.       *)
(***************************************************************************)
Ok(m, ret) == [m |-> m, err |-> "none", ret |-> ret, removed |-> <<>>]
Throw(m, kind) == [m |-> m, err |-> kind, ret |-> Undefined, removed |-> <<>>]

(***************************************************************************)
(* setStageReference / removeStageReference.  Both recurse over the child  *)
(* lists.  `path` holds the calls that are on the stack: for each, the     *)
(* node and the stage references as they were when the call was entered.   *)
(* A node met again while its own call is on the stack means the recursion *)
(* repeats the descent it has just made for ever: nothing new is written   *)
(* after that point, and the call ends with an exception.                  *)
(***************************************************************************)
OnStack(path, n) == \E e \in path : e[1] = n

RECURSIVE setStageReference(_, _, _, _)
RECURSIVE setStageChildren(_, _, _, _, _)

\* n.setStageReference(s).  The repeated descent writes the same values
\* again until the engine's stack is exhausted.
setStageReference(m, n, s, path) ==
    IF OnStack(path, n)
    THEN Throw(m, "StackOverflow")
    ELSE LET m1 == [m EXCEPT !.stage[n] = s,
                             !.dirty = IF interactive[n] THEN TRUE ELSE m.dirty]
         IN  setStageChildren(m1, n, s, path \cup {<<n, m.stage>>}, 1)

\* The loop of setStageReference over this.children, from position k on.
setStageChildren(m, n, s, path, k) ==
    IF k > Len(m.children[n])
    THEN Ok(m, Undefined)
    ELSE LET r == setStageReference(m, m.children[n][k], s, path)
         IN  IF r.err # "none" THEN r
             ELSE setStageChildren(r.m, n, s, path, k + 1)

\* How the endless descent of removeStageReference ends once it is back at
\* `entered`, a call on the stack: the second round meets the nodes the first
\* round has cleared, and `this.stage.dirty = true` on a cleared interactive
\* node is a TypeError; with no such node the stack is exhausted.
RemoveLoopError(m, entered) ==
    IF \E x \in Nodes : interactive[x] /\ entered[2][x] # Null /\ m.stage[x] = Null
    THEN "TypeError"
    ELSE "StackOverflow"

RECURSIVE removeStageReference(_, _, _)
RECURSIVE removeStageChildren(_, _, _, _)

\* n.removeStageReference(): the children first, then the dirty flag through
\* this.stage (a TypeError when this.stage is already null), then the reference.
removeStageReference(m, n, path) ==
    IF OnStack(path, n)
    THEN Throw(m, RemoveLoopError(m, CHOOSE e \in path : e[1] = n))
    ELSE LET r == removeStageChildren(m, n, path \cup {<<n, m.stage>>}, 1)
         IN  IF r.err # "none" THEN r
             ELSE IF interactive[n] /\ r.m.stage[n] = Null
                  THEN Throw(r.m, "TypeError")
                  ELSE Ok([r.m EXCEPT !.stage[n] = Null,
                                      !.dirty = IF interactive[n] THEN TRUE ELSE r.m.dirty],
                          Undefined)

\* The loop of removeStageReference over this.children, from position k on.
removeStageChildren(m, n, path, k) ==
    IF k > Len(m.children[n])
    THEN Ok(m, Undefined)
    ELSE LET r == removeStageReference(m, m.children[n][k], path)
         IN  IF r.err # "none" THEN r
             ELSE removeStageChildren(r.m, n, path, k + 1)

(***************************************************************************)
(* The container's methods, as functions from the heap to a result.        *)
(***************************************************************************)

getChildAt(m, self, index) ==
    IF index < 0 \/ index >= Len(m.children[self])
    THEN Throw(m, "Error")
    ELSE Ok(m, m.children[self][index + 1])

\* getChildIndex that hands back indexOf's -1 instead of throwing.
getChildIndex_MinusOne(m, self, child) ==
    Ok(m, IndexOf(m.children[self], child))

getChildIndex(m, self, child) ==
    LET index == IndexOf(m.children[self], child)
    IN  IF index = -1 THEN Throw(m, "Error") ELSE Ok(m, index)

removeChildAt(m, self, index) ==
    LET g == getChildAt(m, self, index)
    IN  IF g.err # "none" THEN g
        ELSE LET child == g.ret
                 r == IF m.stage[self] # Null
                      THEN removeStageReference(m, child, {})
                      ELSE Ok(m, Undefined)
             IN  IF r.err # "none" THEN r
                 ELSE Ok([r.m EXCEPT !.parent[child] = Null,
                                     !.children[self] =
                                         SpliceRest(r.m.children[self], index, 1)],
                         child)

removeChild(m, self, child) ==
    LET index == IndexOf(m.children[self], child)
    IN  IF index = -1 THEN Ok(m, Undefined)
        ELSE removeChildAt(m, self, index)

\* addChildAt that pushes the child at the end whatever the index.
addChildAt_Append(m, self, child, index) ==
    IF index >= 0 /\ index <= Len(m.children[self])
    THEN LET d == IF m.parent[child] # Null
                  THEN removeChild(m, m.parent[child], child)
                  ELSE Ok(m, Undefined)
         IN  IF d.err # "none" THEN Throw(d.m, d.err)
             ELSE LET m2 == [d.m EXCEPT !.parent[child] = self,
                                        !.children[self] = Append(d.m.children[self], child)]
                      r == IF m2.stage[self] # Null
                           THEN setStageReference(m2, child, m2.stage[self], {})
                           ELSE Ok(m2, Undefined)
                  IN  IF r.err # "none" THEN r ELSE Ok(r.m, child)
    ELSE Throw(m, "Error")

addChildAt(m, self, child, index) ==
    IF index >= 0 /\ index <= Len(m.children[self])
    THEN LET d == IF m.parent[child] # Null
                  THEN removeChild(m, m.parent[child], child)
                  ELSE Ok(m, Undefined)
         IN  IF d.err # "none" THEN Throw(d.m, d.err)
             ELSE LET m2 == [d.m EXCEPT !.parent[child] = self,
                                        !.children[self] =
                                            SpliceInsert(d.m.children[self], index, child)]
                      r == IF m2.stage[self] # Null
                           THEN setStageReference(m2, child, m2.stage[self], {})
                           ELSE Ok(m2, Undefined)
                  IN  IF r.err # "none" THEN r ELSE Ok(r.m, child)
    ELSE Throw(m, "Error")

addChild(m, self, child) ==
    addChildAt(m, self, child, Len(m.children[self]))

\* swapChildren that writes only the first of the two positions.
swapChildren_OneWay(m, self, child, child2) ==
    IF child = child2 THEN Ok(m, Undefined)
    ELSE LET g1 == getChildIndex(m, self, child)
             g2 == getChildIndex(m, self, child2)
         IN  IF g1.err # "none" THEN g1
             ELSE IF g2.err # "none" THEN g2
             ELSE IF g1.ret < 0 \/ g2.ret < 0 THEN Throw(m, "Error")
             ELSE Ok([m EXCEPT !.children[self] =
                          [m.children[self] EXCEPT ![g1.ret + 1] = child2]],
                     Undefined)

swapChildren(m, self, child, child2) ==
    IF child = child2 THEN Ok(m, Undefined)
    ELSE LET g1 == getChildIndex(m, self, child)
             g2 == getChildIndex(m, self, child2)
         IN  IF g1.err # "none" THEN g1
             ELSE IF g2.err # "none" THEN g2
             ELSE IF g1.ret < 0 \/ g2.ret < 0 THEN Throw(m, "Error")
             ELSE Ok([m EXCEPT !.children[self] =
                          [[m.children[self] EXCEPT ![g1.ret + 1] = child2]
                               EXCEPT ![g2.ret + 1] = child]],
                     Undefined)

\* setChildIndex that inserts the child at the new index and forgets to take
\* it out of its old place.
setChildIndex_KeepsCopy(m, self, child, index) ==
    IF index < 0 \/ index >= Len(m.children[self])
    THEN Throw(m, "Error")
    ELSE LET g == getChildIndex(m, self, child)
         IN  IF g.err # "none" THEN g
             ELSE Ok([m EXCEPT !.children[self] =
                          SpliceInsert(m.children[self], index, child)],
                     Undefined)

\* setChildIndex whose bounds test lets index = length through.
setChildIndex_OffByOne(m, self, child, index) ==
    IF index < 0 \/ index > Len(m.children[self])
    THEN Throw(m, "Error")
    ELSE LET g == getChildIndex(m, self, child)
         IN  IF g.err # "none" THEN g
             ELSE Ok([m EXCEPT !.children[self] =
                          SpliceInsert(SpliceRest(m.children[self], g.ret, 1), index, child)],
                     Undefined)

setChildIndex(m, self, child, index) ==
    IF index < 0 \/ index >= Len(m.children[self])
    THEN Throw(m, "Error")
    ELSE LET g == getChildIndex(m, self, child)
         IN  IF g.err # "none" THEN g
             ELSE Ok([m EXCEPT !.children[self] =
                          SpliceInsert(SpliceRest(m.children[self], g.ret, 1), index, child)],
                     Undefined)

\* The loop of removeChildren over the array taken out, from position k on.
RECURSIVE removeChildrenLoop(_, _, _, _)
removeChildrenLoop(m, self, removed, k) ==
    IF k > Len(removed)
    THEN [m |-> m, err |-> "none", ret |-> Array, removed |-> removed]
    ELSE LET child == removed[k]
             r == IF m.stage[self] # Null
                  THEN removeStageReference(m, child, {})
                  ELSE Ok(m, Undefined)
         IN  IF r.err # "none" THEN r
             ELSE removeChildrenLoop([r.m EXCEPT !.parent[child] = Null],
                                     self, removed, k + 1)

\* removeChildren that answers [] to every empty range, children or not.
removeChildren_AnyEmptyRange(m, self, beginIndex, endIndex) ==
    LET begin == IF beginIndex = Undefined THEN 0 ELSE beginIndex
        end == IF endIndex = Undefined THEN Len(m.children[self]) ELSE endIndex
        range == end - begin
    IN  IF range > 0 /\ range <= end
        THEN removeChildrenLoop(
                 [m EXCEPT !.children[self] = SpliceRest(m.children[self], begin, range)],
                 self, SpliceRemoved(m.children[self], begin, range), 1)
        ELSE IF range = 0
        THEN Ok(m, Array)
        ELSE Throw(m, "RangeError")

removeChildren(m, self, beginIndex, endIndex) ==
    LET begin == IF beginIndex = Undefined THEN 0 ELSE beginIndex
        end == IF endIndex = Undefined THEN Len(m.children[self]) ELSE endIndex
        range == end - begin
    IN  IF range > 0 /\ range <= end
        THEN removeChildrenLoop(
                 [m EXCEPT !.children[self] = SpliceRest(m.children[self], begin, range)],
                 self, SpliceRemoved(m.children[self], begin, range), 1)
        ELSE IF range = 0 /\ Len(m.children[self]) = 0
        THEN Ok(m, Array)
        ELSE Throw(m, "RangeError")

(***************************************************************************)
(* The fields the traversals work on.  A rectangle is [x, y, width,        *)
(* height]; a matrix is [a, d, tx, ty], the scale and the translation of   *)
(* an unrotated transform.  A node whose texture is 0 is a plain           *)
(* container; a node with a texture is a leaf that draws it (a sprite) and *)
(* answers getBounds itself.                                               *)
(***************************************************************************)

\* The largest coordinate of a local position.
MaxCoordinate == 1

\* The largest side of a leaf's texture.
MaxTexture == 1

\* How many nodes may have the cache-as-bitmap flag set.
MaxCached == 1

\* math.Matrix.IDENTITY.
IDENTITY == [a |-> 1, d |-> 1, tx |-> 0, ty |-> 0]

\* The object math.Rectangle.EMPTY, as a value returned: every other rectangle
\* returned is the _bounds of a node and is named by that node.
EMPTY == -4

\* Infinity, which no coordinate of the model comes near.
Infinity == 1000

\* A rectangle with the given fields.
Rectangle(x, y, width, height) == [x |-> x, y |-> y, width |-> width, height |-> height]

\* The fields of the objects of N as the constructors leave them.
ConstructedOver(N) ==
    [visible |-> [n \in N |-> TRUE],
     alpha |-> [n \in N |-> 1],
     _cacheAsBitmap |-> [n \in N |-> FALSE],
     _mask |-> [n \in N |-> FALSE],
     _filters |-> [n \in N |-> FALSE],
     texture |-> [n \in N |-> 0],
     position |-> [n \in N |-> [x |-> 0, y |-> 0]],
     scale |-> [n \in N |-> [x |-> 1, y |-> 1]],
     _width |-> [n \in N |-> 0],
     _height |-> [n \in N |-> 0],
     worldTransform |-> [n \in N |-> IDENTITY],
     _bounds |-> [n \in N |-> Rectangle(0, 0, 1, 1)],
     rectangleEMPTY |-> Rectangle(0, 0, 0, 0),
     session |-> [filterStack |-> <<>>, maskStack |-> <<>>, batching |-> TRUE]]

Constructed == ConstructedOver(Nodes)

\* The fields of the rectangle object `id`: math.Rectangle.EMPTY or a _bounds.
RectangleOf(s, id) == IF id = EMPTY THEN s.rectangleEMPTY ELSE s._bounds[id]

\* One step of a traversal, as it is recorded.
Event(ev, n, depth) == [ev |-> ev, node |-> n, depth |-> depth]

\* The base step of updateTransform on one node: the world transform is the
\* local position and scale composed with the parent's world transform.
displayObjectUpdateTransform(s, n) ==
    LET pt == s.worldTransform[parent[n]]
    IN  [s EXCEPT !.worldTransform[n] =
             [a |-> s.scale[n].x * pt.a,
              d |-> s.scale[n].y * pt.d,
              tx |-> s.position[n].x * pt.a + pt.tx,
              ty |-> s.position[n].y * pt.d + pt.ty]]

RECURSIVE updateTransform_ChildrenFirst(_, _, _)
RECURSIVE updateTransform(_, _, _)
RECURSIVE updateChildren(_, _, _, _)

\* updateTransform that updates the children before the container itself.
updateTransform_ChildrenFirst(s, n, depth) ==
    IF ~s.visible[n]
    THEN [s |-> s, trace |-> <<Event("updateTransform", n, depth)>>]
    ELSE IF s._cacheAsBitmap[n]
    THEN [s |-> displayObjectUpdateTransform(s, n),
          trace |-> <<Event("updateTransform", n, depth),
                      Event("displayObjectUpdateTransform", n, depth)>>]
    ELSE LET r == updateChildren(s, n, depth + 1, 1)
         IN  [s |-> displayObjectUpdateTransform(r.s, n),
              trace |-> <<Event("updateTransform", n, depth)>> \o r.trace
                            \o <<Event("displayObjectUpdateTransform", n, depth)>>]

\* n.updateTransform(), called `depth` calls below the caller's.
updateTransform(s, n, depth) ==
    IF ~s.visible[n]
    THEN [s |-> s, trace |-> <<Event("updateTransform", n, depth)>>]
    ELSE LET s1 == displayObjectUpdateTransform(s, n)
             own == <<Event("updateTransform", n, depth),
                      Event("displayObjectUpdateTransform", n, depth)>>
         IN  IF s1._cacheAsBitmap[n]
             THEN [s |-> s1, trace |-> own]
             ELSE LET r == updateChildren(s1, n, depth + 1, 1)
                  IN  [s |-> r.s, trace |-> own \o r.trace]

\* The loop over this.children that calls updateTransform, from position k on.
updateChildren(s, n, depth, k) ==
    IF k > Len(children[n])
    THEN [s |-> s, trace |-> <<>>]
    ELSE LET r == updateTransform(s, children[n][k], depth)
             rest == updateChildren(r.s, n, depth, k + 1)
         IN  [s |-> rest.s, trace |-> r.trace \o rest.trace]

\* getBounds of a leaf with a texture: the texture's frame under the leaf's
\* world transform, written to the leaf's own _bounds.
spriteGetBounds(s, n) ==
    LET wt == s.worldTransform[n]
    IN  [s |-> [s EXCEPT !._bounds[n] =
                    Rectangle(wt.tx, wt.ty, wt.a * s.texture[n], wt.d * s.texture[n])],
         ret |-> n]

\* The running minima and maxima of getBounds before the first child.
NoBounds ==
    [minX |-> Infinity, minY |-> Infinity, maxX |-> -Infinity, maxY |-> -Infinity,
     childVisible |-> FALSE]

\* One round of the loop of getBounds for a visible child with bounds cb.
FoldBounds(acc, cb) ==
    [minX |-> IF acc.minX < cb.x THEN acc.minX ELSE cb.x,
     minY |-> IF acc.minY < cb.y THEN acc.minY ELSE cb.y,
     maxX |-> IF acc.maxX > cb.width + cb.x THEN acc.maxX ELSE cb.width + cb.x,
     maxY |-> IF acc.maxY > cb.height + cb.y THEN acc.maxY ELSE cb.height + cb.y,
     childVisible |-> TRUE]

RECURSIVE getBounds_OwnRectangle(_, _)
RECURSIVE getBounds(_, _)
RECURSIVE getBoundsLoop_CountsInvisible(_, _, _, _)
RECURSIVE getBoundsLoop(_, _, _, _)

\* this.children[i].getBounds(): the callee's own method.
objectGetBounds(s, n) ==
    IF s.texture[n] > 0 THEN spriteGetBounds(s, n) ELSE getBounds(s, n)

\* The loop of getBounds without the test of child.visible.
getBoundsLoop_CountsInvisible(s, n, k, acc) ==
    IF k > Len(children[n])
    THEN [s |-> s, acc |-> acc]
    ELSE LET r == objectGetBounds(s, children[n][k])
         IN  getBoundsLoop(r.s, n, k + 1, FoldBounds(acc, RectangleOf(r.s, r.ret)))

\* The loop of getBounds over this.children, from position k on.
getBoundsLoop(s, n, k, acc) ==
    IF k > Len(children[n])
    THEN [s |-> s, acc |-> acc]
    ELSE LET child == children[n][k]
         IN  IF ~s.visible[child]
             THEN getBoundsLoop(s, n, k + 1, acc)
             ELSE LET r == objectGetBounds(s, child)
                  IN  getBoundsLoop(r.s, n, k + 1,
                                    FoldBounds(acc, RectangleOf(r.s, r.ret)))

\* getBounds that answers "nothing visible" with its own rectangle, zeroed.
getBounds_OwnRectangle(s, n) ==
    LET r == IF Len(children[n]) = 0 THEN [s |-> s, acc |-> NoBounds]
             ELSE getBoundsLoop(s, n, 1, NoBounds)
    IN  IF ~r.acc.childVisible
        THEN [s |-> [r.s EXCEPT !._bounds[n] = Rectangle(0, 0, 0, 0)], ret |-> n]
        ELSE [s |-> [r.s EXCEPT !._bounds[n] =
                         Rectangle(r.acc.minX, r.acc.minY,
                                   r.acc.maxX - r.acc.minX,
                                   r.acc.maxY - r.acc.minY)],
              ret |-> n]

\* n.getBounds() of a container: the state it leaves and the rectangle object
\* it returns.
getBounds(s, n) ==
    IF Len(children[n]) = 0
    THEN [s |-> s, ret |-> EMPTY]
    ELSE LET r == getBoundsLoop(s, n, 1, NoBounds)
         IN  IF ~r.acc.childVisible
             THEN [s |-> r.s, ret |-> EMPTY]
             ELSE [s |-> [r.s EXCEPT !._bounds[n] =
                              Rectangle(r.acc.minX, r.acc.minY,
                                        r.acc.maxX - r.acc.minX,
                                        r.acc.maxY - r.acc.minY)],
                   ret |-> n]

\* getLocalBounds that leaves the container's world transform in place while
\* the children are updated.
getLocalBounds_OwnTransform(s, n) ==
    LET u == updateChildren(s, n, 1, 1)
        r == getBounds(u.s, n)
    IN  [s |-> r.s, ret |-> r.ret, trace |-> u.trace]

\* n.getLocalBounds(): the update pass under the identity, then getBounds.
getLocalBounds(s, n) ==
    LET matrixCache == s.worldTransform[n]
        s1 == [s EXCEPT !.worldTransform[n] = IDENTITY]
        u == updateChildren(s1, n, 1, 1)
        s2 == [u.s EXCEPT !.worldTransform[n] = matrixCache]
        r == getBounds(s2, n)
    IN  [s |-> r.s, ret |-> r.ret, trace |-> u.trace]

\* The getter of width: this.scale.x * this.getLocalBounds().width.
width_get(s, n) ==
    LET r == getLocalBounds(s, n)
    IN  [s |-> r.s, ret |-> s.scale[n].x * RectangleOf(r.s, r.ret).width]

\* The setter of width.  value / width is the exact quotient: the values
\* written are multiples of the width found.
width_set(s, n, value) ==
    LET r == getLocalBounds(s, n)
        width == RectangleOf(r.s, r.ret).width
    IN  [s |-> [r.s EXCEPT !.scale[n].x = IF width # 0 THEN value \div width ELSE 1,
                           !._width[n] = value],
         ret |-> Undefined]

\* The getter of height: this.scale.y * this.getLocalBounds().height.
height_get(s, n) ==
    LET r == getLocalBounds(s, n)
    IN  [s |-> r.s, ret |-> s.scale[n].y * RectangleOf(r.s, r.ret).height]

\* The setter of height.
height_set(s, n, value) ==
    LET r == getLocalBounds(s, n)
        height == RectangleOf(r.s, r.ret).height
    IN  [s |-> [r.s EXCEPT !.scale[n].y = IF height # 0 THEN value \div height ELSE 1,
                           !._height[n] = value],
         ret |-> Undefined]

(***************************************************************************)
(* Rendering.  A render session has a batch controller (flush, stop,       *)
(* start), a filter stack and a mask stack; the Canvas session has the     *)
(* mask stack only.  A render returns [s, trace]: the scene with the       *)
(* session as the calls leave it, and the calls made, each with the        *)
(* container that made it and its depth below the caller's.                *)
(***************************************************************************)

\* The session after one call of a controller by container n.
SessionAfter(session, ev, n) ==
    CASE ev = "pushFilter" ->
             [session EXCEPT !.filterStack = Append(@, n)]
      [] ev = "popFilter" ->
             [session EXCEPT !.filterStack = SubSeq(@, 1, Len(@) - 1)]
      [] ev = "pushMask" ->
             [session EXCEPT !.maskStack = Append(@, n)]
      [] ev = "popMask" ->
             [session EXCEPT !.maskStack = SubSeq(@, 1, Len(@) - 1)]
      [] ev = "stop" -> [session EXCEPT !.batching = FALSE]
      [] ev = "start" -> [session EXCEPT !.batching = TRUE]
      [] OTHER -> session

\* The render r so far, followed by the call ev of container n.
Control(r, ev, n, depth) ==
    [s |-> [r.s EXCEPT !.session = SessionAfter(@, ev, n)],
     trace |-> Append(r.trace, Event(ev, n, depth))]

RECURSIVE _renderWebGL_PopsFilterFirst(_, _, _)
RECURSIVE _renderWebGL(_, _, _)
RECURSIVE renderChildrenWebGL(_, _, _, _)
RECURSIVE _renderCanvas(_, _, _)
RECURSIVE renderChildrenCanvas(_, _, _, _)

\* _renderWebGL that pops the filter before the mask.
_renderWebGL_PopsFilterFirst(s, n, depth) ==
    LET enter == [s |-> s, trace |-> <<Event("_renderWebGL", n, depth)>>]
    IN  IF ~s.visible[n] \/ s.alpha[n] <= 0
        THEN enter
        ELSE IF s._cacheAsBitmap[n]
        THEN Control(enter, "_renderCachedSprite", n, depth)
        ELSE IF s._mask[n] \/ s._filters[n]
        THEN LET filtered == IF s._filters[n]
                             THEN Control(Control(enter, "flush", n, depth),
                                          "pushFilter", n, depth)
                             ELSE enter
                 masked == IF s._mask[n]
                           THEN Control(Control(Control(filtered, "stop", n, depth),
                                                "pushMask", n, depth),
                                        "start", n, depth)
                           ELSE filtered
                 drawn == renderChildrenWebGL(masked, n, depth + 1, 1)
                 stopped == Control(drawn, "stop", n, depth)
                 unfiltered == IF s._filters[n]
                               THEN Control(stopped, "popFilter", n, depth)
                               ELSE stopped
                 unmasked == IF s._mask[n]
                             THEN Control(unfiltered, "popMask", n, depth)
                             ELSE unfiltered
             IN  Control(unmasked, "start", n, depth)
        ELSE renderChildrenWebGL(enter, n, depth + 1, 1)

\* n._renderWebGL(renderSession), called `depth` calls below the caller's.
_renderWebGL(s, n, depth) ==
    LET enter == [s |-> s, trace |-> <<Event("_renderWebGL", n, depth)>>]
    IN  IF ~s.visible[n] \/ s.alpha[n] <= 0
        THEN enter
        ELSE IF s._cacheAsBitmap[n]
        THEN Control(enter, "_renderCachedSprite", n, depth)
        ELSE IF s._mask[n] \/ s._filters[n]
        THEN LET filtered == IF s._filters[n]
                             THEN Control(Control(enter, "flush", n, depth),
                                          "pushFilter", n, depth)
                             ELSE enter
                 masked == IF s._mask[n]
                           THEN Control(Control(Control(filtered, "stop", n, depth),
                                                "pushMask", n, depth),
                                        "start", n, depth)
                           ELSE filtered
                 drawn == renderChildrenWebGL(masked, n, depth + 1, 1)
                 stopped == Control(drawn, "stop", n, depth)
                 unmasked == IF s._mask[n]
                             THEN Control(stopped, "popMask", n, depth)
                             ELSE stopped
                 unfiltered == IF s._filters[n]
                               THEN Control(unmasked, "popFilter", n, depth)
                               ELSE unmasked
             IN  Control(unfiltered, "start", n, depth)
        ELSE renderChildrenWebGL(enter, n, depth + 1, 1)

\* The loop over this.children that calls _renderWebGL, from position k on,
\* continuing the render r.
renderChildrenWebGL(r, n, depth, k) ==
    IF k > Len(children[n])
    THEN r
    ELSE LET c == _renderWebGL(r.s, children[n][k], depth)
         IN  renderChildrenWebGL([s |-> c.s, trace |-> r.trace \o c.trace],
                                 n, depth, k + 1)

\* n._renderCanvas(renderSession), called `depth` calls below the caller's.
_renderCanvas(s, n, depth) ==
    LET enter == [s |-> s, trace |-> <<Event("_renderCanvas", n, depth)>>]
    IN  IF s.visible[n] = FALSE \/ s.alpha[n] = 0
        THEN enter
        ELSE IF s._cacheAsBitmap[n]
        THEN Control(enter, "_renderCachedSprite", n, depth)
        ELSE LET masked == IF s._mask[n]
                           THEN Control(enter, "pushMask", n, depth)
                           ELSE enter
                 drawn == renderChildrenCanvas(masked, n, depth + 1, 1)
             IN  IF s._mask[n]
                 THEN Control(drawn, "popMask", n, depth)
                 ELSE drawn

\* The loop over this.children that calls _renderCanvas, from position k on,
\* continuing the render r.
renderChildrenCanvas(r, n, depth, k) ==
    IF k > Len(children[n])
    THEN r
    ELSE LET c == _renderCanvas(r.s, children[n][k], depth)
         IN  renderChildrenCanvas([s |-> c.s, trace |-> r.trace \o c.trace],
                                  n, depth, k + 1)

(***************************************************************************)
(* The state machine: one action per public method.                        *)
(***************************************************************************)

\* The record of no call: the caller is between two calls.
Idle == [op |-> "idle", self |-> Null, child |-> Null, child2 |-> Null,
         index |-> Null, end |-> Null,
         err |-> "none", ret |-> Undefined, removed |-> <<>>]

\* The record of no traversal.
Resting == [op |-> "idle", self |-> Null, value |-> Null,
            ret |-> Undefined, rect |-> Rectangle(0, 0, 0, 0), trace |-> <<>>]

\* What a call leaves behind: the heap of its result, the record of the call.
Call(op, self, child, child2, index, end, r) ==
    /\ children' = r.m.children
    /\ parent' = r.m.parent
    /\ stage' = r.m.stage
    /\ dirty' = r.m.dirty
    /\ last' = [op |-> op, self |-> self, child |-> child, child2 |-> child2,
                index |-> index, end |-> end,
                err |-> r.err, ret |-> r.ret, removed |-> r.removed]
    /\ pre' = Heap
    /\ UNCHANGED <<interactive, sceneVars>>

\* Index arguments tried on a container: every valid one, one below, two above.
Indices(self) == -1 .. (Len(children[self]) + 1)

\* beginIndex / endIndex arguments: the same, or omitted.
RangeArgs(self) == Indices(self) \cup {Undefined}

AddChild ==
    /\ last.op = "idle"
    /\ \E self \in Nodes, child \in Nodes :
            Call("addChild", self, child, Null, Null, Null, addChild(Heap, self, child))

AddChildAt ==
    /\ last.op = "idle"
    /\ \E self \in Nodes, child \in Nodes : \E index \in Indices(self) :
            Call("addChildAt", self, child, Null, index, Null,
             addChildAt(Heap, self, child, index))

SwapChildren ==
    /\ last.op = "idle"
    /\ \E self \in Nodes, child \in Nodes, child2 \in Nodes :
            Call("swapChildren", self, child, child2, Null, Null,
             swapChildren(Heap, self, child, child2))

GetChildIndex ==
    /\ last.op = "idle"
    /\ \E self \in Nodes, child \in Nodes :
            Call("getChildIndex", self, child, Null, Null, Null,
             getChildIndex(Heap, self, child))

SetChildIndex ==
    /\ last.op = "idle"
    /\ \E self \in Nodes, child \in Nodes : \E index \in Indices(self) :
            Call("setChildIndex", self, child, Null, index, Null,
             setChildIndex(Heap, self, child, index))

GetChildAt ==
    /\ last.op = "idle"
    /\ \E self \in Nodes : \E index \in Indices(self) :
            Call("getChildAt", self, Null, Null, index, Null,
             getChildAt(Heap, self, index))

RemoveChild ==
    /\ last.op = "idle"
    /\ \E self \in Nodes, child \in Nodes :
            Call("removeChild", self, child, Null, Null, Null,
             removeChild(Heap, self, child))

RemoveChildAt ==
    /\ last.op = "idle"
    /\ \E self \in Nodes : \E index \in Indices(self) :
            Call("removeChildAt", self, Null, Null, index, Null,
             removeChildAt(Heap, self, index))

RemoveChildren ==
    /\ last.op = "idle"
    /\ \E self \in Nodes : \E beginIndex \in RangeArgs(self), endIndex \in RangeArgs(self) :
            Call("removeChildren", self, Null, Null, beginIndex, endIndex,
             removeChildren(Heap, self, beginIndex, endIndex))

\* The call has returned or thrown to its caller, which may now make the next
\* call: the record of the finished call is dropped.
Return ==
    /\ last.op # "idle"
    /\ last' = Idle
    /\ pre' = Heap
    /\ UNCHANGED <<children, parent, stage, interactive, dirty, sceneVars>>

\* After construction: no container has children or a parent, only the Stage
\* has a stage reference (itself), and the flags of at most MaxInteractive
\* objects are set.
Init ==
    /\ children = [n \in Nodes |-> <<>>]
    /\ parent = [n \in Nodes |-> Null]
    /\ stage = [n \in Nodes |-> IF n = Root THEN Root ELSE Null]
    /\ interactive \in {f \in [Nodes -> BOOLEAN] :
                           Cardinality({n \in Nodes : f[n]}) <= MaxInteractive}
    /\ dirty = FALSE
    /\ last = Idle
    /\ pre = [children |-> children, parent |-> parent, stage |-> stage, dirty |-> dirty]
    /\ scene = Constructed
    /\ call = Resting
    /\ before = scene

Next ==
    \/ AddChild
    \/ AddChildAt
    \/ SwapChildren
    \/ GetChildIndex
    \/ SetChildIndex
    \/ GetChildAt
    \/ RemoveChild
    \/ RemoveChildAt
    \/ RemoveChildren
    \/ Return

Spec == Init /\ [][Next]_vars

(***************************************************************************)
(* Properties of a heap m = [children, parent, stage, dirty].              *)
(***************************************************************************)

\* n is listed in c.children.
ListedIn(m, c, n) == \E k \in 1 .. Len(m.children[c]) : m.children[c][k] = n

\* The places (container, position) where n is listed.
Places(m, n) ==
    UNION {{<<c, k>> : k \in {j \in 1 .. Len(m.children[c]) : m.children[c][j] = n}} :
           c \in Nodes}

\* Every node is listed at most once, and its parent is the container that
\* lists it, or null when none does.
ParentMatchesLists(m) ==
    \A n \in Nodes :
        /\ Cardinality(Places(m, n)) <= 1
        /\ \A c \in Nodes : (m.parent[n] = c) <=> ListedIn(m, c, n)
        /\ (m.parent[n] = Null) <=> (\A c \in Nodes : ~ListedIn(m, c, n))

\* The node reached from n by k parent links (Null once the chain has ended).
RECURSIVE Ancestor(_, _, _)
Ancestor(m, n, k) ==
    IF k = 0 \/ n = Null THEN n ELSE Ancestor(m, m.parent[n], k - 1)

\* Following parent links from n reaches the Stage (n itself included).
ReachesRoot(m, n) == \E k \in 0 .. NumNodes : Ancestor(m, n, k) = Root

\* a is n or one of the containers above n.
AncestorOrSelf(m, a, n) == \E k \in 0 .. NumNodes : Ancestor(m, n, k) = a

\* The stage reference of a node is the Stage when its parent chain reaches
\* the Stage, and null otherwise.
StageMatchesParents(m) ==
    \A n \in Nodes :
        /\ m.stage[n] \in {Root, Null}
        /\ (m.stage[n] # Null) <=> ReachesRoot(m, n)

\* No node is above itself.
Forest(m) == \A n \in Nodes : \A k \in 1 .. NumNodes : Ancestor(m, n, k) # n

\* A display tree as the three invariants describe it.
Consistent(m) == ParentMatchesLists(m) /\ StageMatchesParents(m) /\ Forest(m)

\* The nodes of the subtree of n: n and everything listed below it.
RECURSIVE Below(_, _, _)
Below(m, S, k) ==
    IF k = 0 THEN S
    ELSE Below(m, S \cup {m.children[c][j] : <<c, j>> \in
                   {<<c, j>> \in S \X (1 .. (NumNodes + 1)) : j <= Len(m.children[c])}},
               k - 1)
Subtree(m, n) == Below(m, {n}, NumNodes)

\* The last call was `op` and the caller has its outcome in hand.
Called(op) == last.op = op

(***************************************************************************)
(* C1.  After any sequence of addChild, addChildAt, removeChild,           *)
(* removeChildAt, removeChildren, swapChildren and setChildIndex calls,    *)
(* successful or failing, every node occurs at most once in the union of   *)
(* all child lists, and a node's parent is container C exactly when the    *)
(* node is listed in C.children (null exactly when it is listed nowhere).  *)
(***************************************************************************)
C1_ParentMatchesChildLists == ParentMatchesLists(Heap)

(***************************************************************************)
(* C2.  After any sequence of mutation calls, from the state where only    *)
(* the Stage has a stage reference (itself), a node's stage reference is   *)
(* non-null if and only if following parent links from it reaches the      *)
(* Stage, and is then the Stage.                                           *)
(***************************************************************************)
C2_StageIffAttached == StageMatchesParents(Heap)

\* The heap when the last call was made, and the arguments of that call.
ValidInsertIndex == last.index >= 0 /\ last.index <= Len(pre.children[last.self])
ValidChildIndex == last.index >= 0 /\ last.index < Len(pre.children[last.self])

\* The last call left every child list and every parent and stage reference
\* as it found them.
TreeUnchanged ==
    /\ children = pre.children
    /\ parent = pre.parent
    /\ stage = pre.stage

\* What addChildAt promises about its result: the child is returned, it is
\* the one getChildAt(index) gives, and the list is one longer.
InsertedAtIndex ==
    /\ last.ret = last.child
    /\ getChildAt(Heap, last.self, last.index).err = "none"
    /\ getChildAt(Heap, last.self, last.index).ret = last.child
    /\ Len(children[last.self]) = Len(pre.children[last.self]) + 1

C4_OutOfBoundsRaises ==
    /\ (Called("addChildAt") /\ ~ValidInsertIndex)
           => (last.err # "none" /\ TreeUnchanged)
    /\ ((Called("getChildAt") \/ Called("removeChildAt") \/ Called("setChildIndex"))
            /\ ~ValidChildIndex)
           => (last.err # "none" /\ TreeUnchanged)

\* addChildAt was called with an index one beyond the length, for a child
\* that sits in another, attached container: the error left it there.
C4_Witness ==
    /\ Called("addChildAt")
    /\ last.index = Len(pre.children[last.self]) + 1
    /\ last.err = "Error"
    /\ pre.parent[last.child] \notin {Null, last.self}
    /\ pre.stage[last.child] # Null
    /\ ListedIn(Heap, pre.parent[last.child], last.child)

\* s without its element x.
Without(s, x) == SelectSeq(s, LAMBDA y : y # x)

(***************************************************************************)
(* C5.  If node n is a child of container A and B is a different           *)
(* container, then after B.addChildAt(n, i) with a valid i: A.children no  *)
(* longer contains n, A's length has decreased by exactly 1 with the order *)
(* of A's remaining children preserved, B's length has increased by        *)
(* exactly 1 with n at position i, and n.parent equals B.                  *)
(***************************************************************************)
C5_MoveBetweenContainers ==
    \A A \in Nodes :
        (/\ Called("addChildAt") /\ ValidInsertIndex
         /\ ListedIn(pre, A, last.child)
         /\ A # last.self)
            => /\ ~ListedIn(Heap, A, last.child)
               /\ Len(children[A]) = Len(pre.children[A]) - 1
               /\ children[A] = Without(pre.children[A], last.child)
               /\ Len(children[last.self]) = Len(pre.children[last.self]) + 1
               /\ children[last.self][last.index + 1] = last.child
               /\ parent[last.child] = last.self

\* The children at positions begin .. end-1 of the list the call found.
RangeBegin == IF last.index = Undefined THEN 0 ELSE last.index
RangeEnd == IF last.end = Undefined THEN Len(pre.children[last.self]) ELSE last.end
RangeAccepted == RangeEnd - RangeBegin > 0 /\ RangeEnd - RangeBegin <= RangeEnd

(***************************************************************************)
(* C6.  removeChildren(begin, end) with range = end - begin > 0 and        *)
(* range <= end succeeds, removes exactly the children at positions begin  *)
(* through end-1 and returns them in their original order (a sequence of   *)
(* exactly end - begin nodes), leaves the remaining children in their      *)
(* original relative order, and leaves every returned node with parent     *)
(* null and, if the container was attached, with its whole subtree's stage *)
(* reference null.                                                         *)
(***************************************************************************)
C6_RemoveChildrenSlice ==
    (Called("removeChildren") /\ RangeAccepted) =>
        /\ last.err = "none"
        /\ last.ret = Array
        /\ Len(last.removed) = RangeEnd - RangeBegin
        /\ last.removed = SubSeq(pre.children[last.self], RangeBegin + 1, RangeEnd)
        /\ children[last.self] =
               SubSeq(pre.children[last.self], 1, RangeBegin)
                   \o SubSeq(pre.children[last.self], RangeEnd + 1,
                             Len(pre.children[last.self]))
        /\ \A k \in 1 .. Len(last.removed) :
               /\ parent[last.removed[k]] = Null
               /\ pre.stage[last.self] # Null
                      => \A x \in Subtree(Heap, last.removed[k]) : stage[x] = Null

(***************************************************************************)
(* C7.  removeChildren(begin, end) with end - begin = 0 on a container     *)
(* with no children (the call with both arguments defaulted included)      *)
(* returns an empty sequence without raising; every other call that does   *)
(* not satisfy (range > 0 and range <= end) raises a RangeError, and after *)
(* that RangeError the child list and all parent and stage references are  *)
(* unchanged.                                                              *)
(***************************************************************************)
C7_RemoveChildrenRejects ==
    (Called("removeChildren") /\ ~RangeAccepted) =>
        IF RangeEnd - RangeBegin = 0 /\ Len(pre.children[last.self]) = 0
        THEN last.err = "none" /\ last.ret = Array /\ last.removed = <<>>
        ELSE last.err = "RangeError" /\ TreeUnchanged

\* removeChildren(k, k) was refused on a container that has children.
C7_Witness ==
    /\ Called("removeChildren")
    /\ RangeEnd = RangeBegin
    /\ Len(pre.children[last.self]) > 0
    /\ last.err = "RangeError"

(***************************************************************************)
(* C8.  swapChildren(a, b) where a or b is not a direct child of the       *)
(* caller (and a is not b) raises an error, as does getChildIndex(c) for a *)
(* node c that is not a direct child; in both cases the caller's child     *)
(* sequence and every parent and stage reference are unchanged afterwards. *)
(***************************************************************************)
C8_NonMemberRaises ==
    /\ (/\ Called("swapChildren") /\ last.child # last.child2
        /\ (~ListedIn(pre, last.self, last.child) \/ ~ListedIn(pre, last.self, last.child2)))
           => (last.err # "none" /\ TreeUnchanged)
    /\ (Called("getChildIndex") /\ ~ListedIn(pre, last.self, last.child))
           => (last.err # "none" /\ TreeUnchanged)

\* swapChildren was refused for a child of the caller and a node that sits in
\* another container.
C8_Witness ==
    /\ Called("swapChildren") /\ last.err = "Error"
    /\ ListedIn(pre, last.self, last.child)
    /\ pre.parent[last.child2] \notin {Null, last.self}
    /\ Len(pre.children[last.self]) >= 1

\* The list s with every a replaced by b and every b by a.
Exchanged(s, a, b) ==
    [k \in 1 .. Len(s) |-> IF s[k] = a THEN b ELSE IF s[k] = b THEN a ELSE s[k]]

(***************************************************************************)
(* C9.  swapChildren(a, a) leaves the child sequence unchanged for any     *)
(* node a; for two distinct direct children a and b, swapChildren(a, b)    *)
(* exchanges exactly their two positions (all other positions, the length, *)
(* and all parent and stage references unchanged), and a second            *)
(* swapChildren(a, b) restores the original child sequence.                *)
(***************************************************************************)
C9_SwapChildren ==
    Called("swapChildren") =>
        /\ last.child = last.child2 => (last.err = "none" /\ TreeUnchanged)
        /\ (/\ last.child # last.child2
            /\ ListedIn(pre, last.self, last.child)
            /\ ListedIn(pre, last.self, last.child2))
               => /\ last.err = "none"
                  /\ children[last.self] =
                         Exchanged(pre.children[last.self], last.child, last.child2)
                  /\ \A c \in Nodes \ {last.self} : children[c] = pre.children[c]
                  /\ parent = pre.parent /\ stage = pre.stage
                  /\ swapChildren(Heap, last.self, last.child, last.child2).err = "none"
                  /\ swapChildren(Heap, last.self, last.child, last.child2).m.children
                         = pre.children

\* Two distinct children of a container that holds a third one were swapped:
\* the list changed and the third child is still in it.
C9_Witness ==
    /\ Called("swapChildren") /\ last.err = "none"
    /\ last.child # last.child2
    /\ Len(pre.children[last.self]) >= 3
    /\ children[last.self] # pre.children[last.self]
    /\ \E k \in 1 .. Len(children[last.self]) :
           children[last.self][k] \notin {last.child, last.child2}

(***************************************************************************)
(* C10.  For every container and every index i in [0, length), letting     *)
(* c = removeChildAt(i) and then calling addChildAt(c, i) restores the     *)
(* child sequence to exactly the sequence before the removal, with         *)
(* c.parent again the container and, if the container is attached, c's     *)
(* subtree again carrying the container's stage reference.                 *)
(***************************************************************************)
C10_RemoveThenAddRoundTrip ==
    (Called("removeChildAt") /\ ValidChildIndex) =>
        /\ last.err = "none"
        /\ LET back == addChildAt(Heap, last.self, last.ret, last.index)
           IN  /\ back.err = "none"
               /\ back.m.children[last.self] = pre.children[last.self]
               /\ back.m.parent[last.ret] = last.self
               /\ pre.stage[last.self] # Null
                      => \A x \in Subtree(back.m, last.ret) :
                             back.m.stage[x] = pre.stage[last.self]

\* The nodes listed below n: its children, their children, and so on.
Descendants(m, n) ==
    Below(m, {m.children[n][k] : k \in 1 .. Len(m.children[n])}, NumNodes)

\* The last call ran to its end: no recursion without end, and none that
\* ended on a reference already cleared.
RanToCompletion == last.err \notin {"StackOverflow", "TypeError"}

(***************************************************************************)
(* C15.  After any sequence of mutation operations the parent/child        *)
(* relation is a forest: no node is its own ancestor, no container is      *)
(* listed, directly or transitively, among its own descendants, and the    *)
(* recursive traversals the operations make (setStageReference,            *)
(* removeStageReference) visit each node once and run to completion.       *)
(***************************************************************************)
C15_ForestAfterMutations ==
    /\ Forest(Heap)
    /\ \A n \in Nodes : n \notin Descendants(Heap, n)
    /\ RanToCompletion

(***************************************************************************)
(* C16.  For a direct child c and an index i in [0, length),               *)
(* setChildIndex(c, i) leaves c at position i, keeps the length and the    *)
(* relative order of all other children unchanged, and changes no parent   *)
(* or stage reference and no stage dirty flag; when c is not a direct      *)
(* child it raises an error and leaves the child sequence unchanged.       *)
(***************************************************************************)
C16_SetChildIndex ==
    Called("setChildIndex") =>
        /\ (ListedIn(pre, last.self, last.child) /\ ValidChildIndex)
               => /\ last.err = "none"
                  /\ children[last.self][last.index + 1] = last.child
                  /\ Len(children[last.self]) = Len(pre.children[last.self])
                  /\ Without(children[last.self], last.child)
                         = Without(pre.children[last.self], last.child)
                  /\ \A c \in Nodes \ {last.self} : children[c] = pre.children[c]
                  /\ parent = pre.parent /\ stage = pre.stage /\ dirty = pre.dirty
        /\ ~ListedIn(pre, last.self, last.child)
               => (last.err # "none" /\ children = pre.children)

\* A child was moved from the front of a list of two or more to a later
\* position: the list changed and the child is where it was asked to be.
C16_Witness ==
    /\ Called("setChildIndex") /\ last.err = "none"
    /\ Len(pre.children[last.self]) >= 2
    /\ pre.children[last.self][1] = last.child
    /\ last.index >= 1
    /\ children[last.self] # pre.children[last.self]
    /\ children[last.self][last.index + 1] = last.child
    /\ Consistent(pre)

\* Some node of the subtrees of the nodes in S is flagged interactive.
InteractiveBelow(m, S) == \E n \in S : \E x \in Subtree(m, n) : interactive[x]

\* What the stage references of the subtrees of the nodes in S and the dirty
\* flag must be after a traversal that started from dirty flag `was`.
StagePropagated(m, S, s, was) ==
    /\ \A n \in S : \A x \in Subtree(m, n) : m.stage[x] = s
    /\ m.dirty = (was \/ InteractiveBelow(m, S))

\* The nodes the last removal call was asked to take out of an attached
\* container.
TakenOut ==
    IF Called("removeChildAt") /\ ValidChildIndex
    THEN {pre.children[last.self][last.index + 1]}
    ELSE IF Called("removeChild") /\ ListedIn(pre, last.self, last.child)
    THEN {last.child}
    ELSE IF Called("removeChildren") /\ RangeAccepted
    THEN {pre.children[last.self][k] :
              k \in {j \in 1 .. Len(pre.children[last.self]) :
                         j > RangeBegin /\ j <= RangeEnd}}
    ELSE {}

(***************************************************************************)
(* C14.  For any subtree, setStageReference(root) sets the stage reference *)
(* of every node of the subtree to root, and a following                   *)
(* removeStageReference() sets every one of them back to null; if any node *)
(* of the subtree is flagged interactive, root.dirty is true afterwards,   *)
(* and if none is, root.dirty is left unchanged.  The same holds when the  *)
(* two calls are made indirectly by addChildAt into, and removeChildAt /   *)
(* removeChild / removeChildren from, an attached container.               *)
(***************************************************************************)
C14_StageReferenceRoundTrip ==
    /\ \A n \in Nodes :
           (last.op = "idle" /\ stage[n] = Null /\ parent[n] = Null) =>
               LET set == setStageReference(Heap, n, Root, {})
                   back == removeStageReference(set.m, n, {})
               IN  /\ set.err = "none"
                   /\ StagePropagated(set.m, {n}, Root, dirty)
                   /\ back.err = "none"
                   /\ StagePropagated(back.m, {n}, Null, dirty)
    /\ ((Called("addChild") \/ Called("addChildAt"))
            /\ (Called("addChildAt") => ValidInsertIndex)
            /\ pre.stage[last.self] # Null)
           => /\ last.err = "none"
              /\ StagePropagated(Heap, {last.child}, pre.stage[last.self], pre.dirty)
    /\ (TakenOut # {} /\ pre.stage[last.self] # Null)
           => /\ last.err = "none"
              /\ StagePropagated(Heap, TakenOut, Null, pre.dirty)

(***************************************************************************)
(* The traversals as a state machine.  The display tree is one the         *)
(* mutation operations build (a forest under the Stage and beside it), the *)
(* flags, positions and textures are what the application has set, and     *)
(* every world transform is the identity until updateTransform has         *)
(* computed it.                                                            *)
(***************************************************************************)

\* The child lists a container may have among the objects of N: no node
\* twice, never the Stage.
ChildLists(N) ==
    {l \in UNION {[1 .. k -> N \ {Root}] : k \in 0 .. (Cardinality(N) - 1)} :
        \A i, j \in 1 .. Len(l) : l[i] = l[j] => i = j}

\* The parent references that go with the child lists f.
ParentsOf(f) ==
    [n \in DOMAIN f |->
        IF \E c \in DOMAIN f : \E k \in 1 .. Len(f[c]) : f[c][k] = n
        THEN CHOOSE c \in DOMAIN f : \E k \in 1 .. Len(f[c]) : f[c][k] = n
        ELSE Null]

\* The display trees over the objects of N: every node in at most one list,
\* no node above itself.
Trees(N) ==
    {f \in [N -> ChildLists(N)] :
        LET m == [children |-> f, parent |-> ParentsOf(f)]
        IN  /\ \A c, d \in N : \A i \in 1 .. Len(f[c]) : \A j \in 1 .. Len(f[d]) :
                   f[c][i] = f[d][j] => c = d
            /\ \A n \in N : \A k \in 1 .. Cardinality(N) : Ancestor(m, n, k) # n}

\* The stage references that go with the parent references p: the Stage for
\* the nodes below it and for itself.
StagesOf(p) ==
    [n \in DOMAIN p |->
        IF \E k \in 0 .. Cardinality(DOMAIN p) : Ancestor([parent |-> p], n, k) = Root
        THEN Root ELSE Null]

\* The local positions of the model.
Points == {[x |-> px, y |-> py] : px \in 0 .. MaxCoordinate, py \in 0 .. MaxCoordinate}

\* The flags an application may have set on the nodes of the tree, at most
\* `most` of them.  The flags of a node without a parent are read by no
\* traversal of the model and stay as constructed.
Flags(most) ==
    {f \in [DOMAIN parent -> BOOLEAN] :
        /\ \A n \in DOMAIN parent : parent[n] = Null => ~f[n]
        /\ Cardinality({n \in DOMAIN parent : f[n]}) <= most}

\* The positions an application may have given the nodes of the tree; that of
\* a node without a parent is read by no traversal and stays as constructed.
Positions ==
    {f \in [DOMAIN parent -> Points] :
        \A n \in DOMAIN parent : parent[n] = Null => f[n] = [x |-> 0, y |-> 0]}

\* What the application may have set on the nodes of the tree before the
\* traversals start; only a leaf has a texture.
SceneInputs ==
    {[Constructed EXCEPT !.visible = [n \in Nodes |-> ~h[n]], !._cacheAsBitmap = c,
                         !.position = p, !.texture = x] :
        h \in Flags(NumNodes),
        c \in Flags(MaxCached),
        p \in Positions,
        x \in {f \in [Nodes -> 0 .. MaxTexture] :
                  \A n \in Nodes : Len(children[n]) > 0 => f[n] = 0}}

\* What a traversal leaves behind: the fields of its result, its record.
SceneCall(op, self, value, s, ret, trace) ==
    /\ scene' = s
    /\ call' = [op |-> op, self |-> self, value |-> value,
                ret |-> ret,
                rect |-> IF ret \in Nodes \cup {EMPTY} THEN RectangleOf(s, ret)
                         ELSE Rectangle(0, 0, 0, 0),
                trace |-> trace]
    /\ before' = scene
    /\ UNCHANGED treeVars

\* updateTransform is called on a node that has a parent, as the update pass
\* of the Stage and of getLocalBounds do.
UpdateTransform ==
    /\ call.op = "idle"
    /\ \E n \in DOMAIN parent :
           /\ parent[n] # Null
           /\ LET r == updateTransform(scene, n, 0)
              IN  SceneCall("updateTransform", n, Null, r.s, Undefined, r.trace)

GetBounds ==
    /\ call.op = "idle"
    /\ \E n \in Nodes :
           /\ scene.texture[n] = 0
           /\ LET r == getBounds(scene, n)
              IN  SceneCall("getBounds", n, Null, r.s, r.ret, <<>>)

GetLocalBounds ==
    /\ call.op = "idle"
    /\ \E n \in Nodes :
           /\ scene.texture[n] = 0
           /\ LET r == getLocalBounds(scene, n)
              IN  SceneCall("getLocalBounds", n, Null, r.s, r.ret, r.trace)

\* The largest value written to a width or a height.
MaxValue == 2

\* No width and no height has been written yet: a run of the model writes one.
Unscaled ==
    /\ scene.scale = Constructed.scale
    /\ scene._width = Constructed._width
    /\ scene._height = Constructed._height

\* The values that may be written where the local bounds measure `size`: those
\* the division by the size gives a whole scale for.
Writable(size) == {value \in 0 .. MaxValue : size = 0 \/ value % size = 0}

\* The rectangle n.getLocalBounds() measures now.
LocalSize(n) ==
    LET r == getLocalBounds(scene, n) IN RectangleOf(r.s, r.ret)

GetWidth ==
    /\ call.op = "idle"
    /\ \E n \in Nodes :
           /\ scene.texture[n] = 0
           /\ LET r == width_get(scene, n)
              IN  SceneCall("width", n, Null, r.s, r.ret, <<>>)

SetWidth ==
    /\ call.op = "idle"
    /\ Unscaled
    /\ \E n \in Nodes :
           /\ scene.texture[n] = 0
           /\ \E value \in Writable(LocalSize(n).width) :
                  LET r == width_set(scene, n, value)
                  IN  SceneCall("width=", n, value, r.s, r.ret, <<>>)

GetHeight ==
    /\ call.op = "idle"
    /\ \E n \in Nodes :
           /\ scene.texture[n] = 0
           /\ LET r == height_get(scene, n)
              IN  SceneCall("height", n, Null, r.s, r.ret, <<>>)

SetHeight ==
    /\ call.op = "idle"
    /\ Unscaled
    /\ \E n \in Nodes :
           /\ scene.texture[n] = 0
           /\ \E value \in Writable(LocalSize(n).height) :
                  LET r == height_set(scene, n, value)
                  IN  SceneCall("height=", n, value, r.s, r.ret, <<>>)

\* The traversal has returned to its caller, which may now start the next.
ReturnScene ==
    /\ call.op # "idle"
    /\ call' = Resting
    /\ before' = scene
    /\ UNCHANGED <<scene, treeVars>>

\* A display tree with its Stage, nothing interactive, and the fields the
\* application has set.
InitBounds ==
    /\ children \in Trees(Nodes)
    /\ parent = ParentsOf(children)
    /\ stage = StagesOf(parent)
    /\ interactive = [n \in Nodes |-> FALSE]
    /\ dirty = FALSE
    /\ last = Idle
    /\ pre = [children |-> children, parent |-> parent, stage |-> stage, dirty |-> dirty]
    /\ scene \in SceneInputs
    /\ call = Resting
    /\ before = scene

NextBounds ==
    \/ UpdateTransform
    \/ GetBounds
    \/ GetLocalBounds
    \/ GetWidth
    \/ SetWidth
    \/ GetHeight
    \/ SetHeight
    \/ ReturnScene

SpecBounds == InitBounds /\ [][NextBounds]_vars

(***************************************************************************)
(* The update pass alone, on trees of NumObjects objects: large enough for *)
(* a container that has a parent and two children of its own.              *)
(***************************************************************************)

\* Number of display objects of a tree the update pass is followed on.
NumObjects == 4

Objects == 0 .. (NumObjects - 1)

InitTransform ==
    /\ children \in Trees(Objects)
    /\ parent = ParentsOf(children)
    /\ stage = StagesOf(parent)
    /\ interactive = [n \in Objects |-> FALSE]
    /\ dirty = FALSE
    /\ last = Idle
    /\ pre = [children |-> children, parent |-> parent, stage |-> stage, dirty |-> dirty]
    /\ scene \in {[ConstructedOver(Objects) EXCEPT
                       !.visible = [n \in Objects |-> ~h[n]],
                       !._cacheAsBitmap = c, !.position = p] :
                      h \in Flags(NumObjects), c \in Flags(MaxCached), p \in Positions}
    /\ call = Resting
    /\ before = scene

NextTransform ==
    \/ UpdateTransform
    \/ ReturnScene

SpecTransform == InitTransform /\ [][NextTransform]_vars

(***************************************************************************)
(* The two renders.  The session is the renderer's: its stacks are empty   *)
(* and its batch is running when the renderer hands it to a container.     *)
(***************************************************************************)

\* The largest number of containers that are hidden, and of containers that
\* are fully transparent.
MaxHidden == 1

\* The values of alpha: fully transparent and opaque.
Alphas == {0, 1}

\* The sets of at most `most` containers.
Marked(most) == {f \in [Nodes -> BOOLEAN] : Cardinality({n \in Nodes : f[n]}) <= most}

RenderWebGL ==
    /\ call.op = "idle"
    /\ \E n \in Nodes :
           LET r == _renderWebGL(scene, n, 0)
           IN  SceneCall("_renderWebGL", n, Null, r.s, Undefined, r.trace)

RenderCanvas ==
    /\ call.op = "idle"
    /\ \E n \in Nodes :
           LET r == _renderCanvas(scene, n, 0)
           IN  SceneCall("_renderCanvas", n, Null, r.s, Undefined, r.trace)

InitRender ==
    /\ children \in Trees(Nodes)
    /\ parent = ParentsOf(children)
    /\ stage = StagesOf(parent)
    /\ interactive = [n \in Nodes |-> FALSE]
    /\ dirty = FALSE
    /\ last = Idle
    /\ pre = [children |-> children, parent |-> parent, stage |-> stage, dirty |-> dirty]
    /\ scene \in {[Constructed EXCEPT
                       !.visible = [n \in Nodes |-> ~h[n]],
                       !.alpha = a,
                       !._cacheAsBitmap = c, !._mask = m, !._filters = f] :
                      h \in Marked(MaxHidden),
                      a \in {g \in [Nodes -> Alphas] :
                                Cardinality({n \in Nodes : g[n] = 0}) <= MaxHidden},
                      c \in Marked(MaxCached),
                      m \in Marked(NumNodes), f \in Marked(NumNodes)}
    /\ call = Resting
    /\ before = scene

NextRender ==
    \/ RenderWebGL
    \/ RenderCanvas
    \/ ReturnScene

SpecRender == InitRender /\ [][NextRender]_vars

\* The last traversal was `op` and the caller has its outcome in hand.
Traversed(op) == call.op = op

\* The children of n that are visible.
VisibleChildren(s, n) ==
    {children[n][k] : k \in {j \in 1 .. Len(children[n]) : s.visible[children[n][j]]}}

(***************************************************************************)
(* C11.  getBounds() returns the shared empty-rectangle sentinel (the same *)
(* object as Rectangle.EMPTY, not the container's own cached rectangle)    *)
(* whenever the container has no children or every direct child has        *)
(* visible == false, and in that case neither the sentinel's fields nor    *)
(* the container's cached rectangle are written.                           *)
(***************************************************************************)
C11_EmptyBoundsSentinel ==
    (Traversed("getBounds") /\ VisibleChildren(before, call.self) = {}) =>
        /\ call.ret = EMPTY
        /\ scene.rectangleEMPTY = before.rectangleEMPTY
        /\ scene._bounds[call.self] = before._bounds[call.self]

\* getBounds was asked of a container that has children, all of them
\* invisible, one of them a leaf with a texture.
C11_Witness ==
    /\ Traversed("getBounds")
    /\ Len(children[call.self]) >= 2
    /\ VisibleChildren(before, call.self) = {}
    /\ \E k \in 1 .. Len(children[call.self]) : scene.texture[children[call.self][k]] > 0
    /\ call.ret = EMPTY

\* The least and the greatest element of a set of integers.
Least(S) == CHOOSE x \in S : \A y \in S : x <= y
Greatest(S) == CHOOSE x \in S : \A y \in S : x >= y

\* The rectangle the child c handed to its parent in the traversal that has
\* just ended: its own _bounds, or the sentinel when it is a container that
\* found no visible child.
HandedUp(c) ==
    IF scene.texture[c] > 0 \/ VisibleChildren(before, c) # {}
    THEN scene._bounds[c]
    ELSE scene.rectangleEMPTY

\* The rectangle from the minima of x and y and the maxima of x + width and
\* y + height over a set of rectangles.
Enclosing(R) ==
    LET minX == Least({r.x : r \in R})
        minY == Least({r.y : r \in R})
        maxX == Greatest({r.x + r.width : r \in R})
        maxY == Greatest({r.y + r.height : r \in R})
    IN  Rectangle(minX, minY, maxX - minX, maxY - minY)

(***************************************************************************)
(* C12.  When at least one direct child is visible, getBounds() returns    *)
(* the rectangle (minX, minY, maxX - minX, maxY - minY) where minX/minY    *)
(* are the minima of x/y and maxX/maxY the maxima of x+width / y+height    *)
(* over the bounds of the visible direct children only (invisible children *)
(* contribute nothing, and the result does not depend on child order);     *)
(* e.g. children with bounds (0,0,10,10) and (20,20,5,5) give (0,0,25,25). *)
(***************************************************************************)
C12_BoundsOfVisibleChildren ==
    /\ (Traversed("getBounds") /\ VisibleChildren(before, call.self) # {}) =>
           /\ call.ret = call.self
           /\ call.rect = Enclosing({HandedUp(c) : c \in VisibleChildren(before, call.self)})
    /\ LET acc == FoldBounds(FoldBounds(NoBounds, Rectangle(0, 0, 10, 10)),
                             Rectangle(20, 20, 5, 5))
       IN  Rectangle(acc.minX, acc.minY, acc.maxX - acc.minX, acc.maxY - acc.minY)
               = Rectangle(0, 0, 25, 25)

\* getBounds was asked of a container with a visible leaf, an invisible leaf
\* whose rectangle would have widened the result, and got a rectangle that
\* is not the one of the visible leaf's position alone.
C12_Witness ==
    /\ Traversed("getBounds")
    /\ call.ret = call.self
    /\ \E c, d \in Nodes :
           /\ c \in VisibleChildren(before, call.self)
           /\ parent[d] = call.self /\ ~before.visible[d]
           /\ scene.texture[c] > 0 /\ scene.texture[d] > 0
           /\ before.worldTransform[c] # before.worldTransform[d]
           /\ call.rect = scene._bounds[c]

\* The nodes reached from the nodes of S through visible children, in at most
\* k steps.
RECURSIVE VisibleBelow(_, _, _)
VisibleBelow(s, S, k) ==
    IF k = 0 THEN S
    ELSE VisibleBelow(s, S \cup UNION {VisibleChildren(s, c) : c \in S}, k - 1)

\* The nodes below n that are reached through visible nodes only.
VisibleDescendants(s, n) == VisibleBelow(s, VisibleChildren(s, n), NumNodes)

\* The visible content of n: the leaves with a texture among them.
VisibleContent(s, n) == {x \in VisibleDescendants(s, n) : s.texture[x] > 0}

\* The rectangle a leaf with a texture covers under its world transform.
Covered(s, x) ==
    Rectangle(s.worldTransform[x].tx, s.worldTransform[x].ty,
              s.worldTransform[x].a * s.texture[x],
              s.worldTransform[x].d * s.texture[x])

(***************************************************************************)
(* C13.  For a tree of any depth, getBounds() of a container is the        *)
(* smallest axis-aligned rectangle enclosing the bounds of its visible     *)
(* content, i.e. of the leaf nodes reached through visible nodes only: a   *)
(* visible descendant container that itself has no children, or only       *)
(* invisible children, has no content and does not enlarge or shift the    *)
(* result of its ancestors.                                                *)
(***************************************************************************)
C13_BoundsOfVisibleContent ==
    (Traversed("getBounds") /\ VisibleContent(before, call.self) # {}) =>
        call.rect = Enclosing({Covered(before, x) : x \in VisibleContent(before, call.self)})

\* The events of the last traversal that are of kind ev at depth d.
EventsAt(ev, d) == SelectSeq(call.trace, LAMBDA e : e.ev = ev /\ e.depth = d)

\* The nodes of a sequence of events.
NodesOf(events) == [k \in 1 .. Len(events) |-> events[k].node]

(***************************************************************************)
(* C17.  updateTransform() on a container with visible == false changes no *)
(* world transform anywhere in its subtree (including its own); on a       *)
(* visible container with the cache-as-bitmap flag set it updates only the *)
(* container's own world transform and leaves every descendant's world     *)
(* transform unchanged; otherwise it updates its own world transform first *)
(* and then calls updateTransform on every direct child exactly once, in   *)
(* increasing index order.                                                 *)
(***************************************************************************)
C17_UpdateTransform ==
    Traversed("updateTransform") =>
        LET n == call.self
            own == Event("displayObjectUpdateTransform", n, 0)
        IN  /\ ~before.visible[n] =>
                   /\ scene.worldTransform = before.worldTransform
                   /\ call.trace = <<Event("updateTransform", n, 0)>>
            /\ (before.visible[n] /\ before._cacheAsBitmap[n]) =>
                   /\ \A x \in DOMAIN parent \ {n} :
                          scene.worldTransform[x] = before.worldTransform[x]
                   /\ call.trace = <<Event("updateTransform", n, 0), own>>
            /\ (before.visible[n] /\ ~before._cacheAsBitmap[n]) =>
                   /\ Len(call.trace) >= 2
                   /\ call.trace[1] = Event("updateTransform", n, 0)
                   /\ call.trace[2] = own
                   /\ NodesOf(EventsAt("updateTransform", 1)) = children[n]
                   /\ NodesOf(EventsAt("displayObjectUpdateTransform", 0)) = <<n>>

\* A visible container that is not cached and has two children was updated,
\* and the world transform of its second child changed with it.
C17_Witness ==
    /\ Traversed("updateTransform")
    /\ before.visible[call.self] /\ ~before._cacheAsBitmap[call.self]
    /\ Len(children[call.self]) >= 2
    /\ scene.worldTransform[children[call.self][2]]
           # before.worldTransform[children[call.self][2]]
    /\ Len(call.trace) >= 5

\* The positions a container is tried at.
Corners == {q \in Points : q.x + q.y = MaxCoordinate}

\* The world transforms a container or one of its ancestors is tried with.
Transforms ==
    {[a |-> k, d |-> k, tx |-> p.x, ty |-> p.y] : k \in 1 .. MaxValue, p \in Corners}

\* The containers above n.
ProperAncestors(n) ==
    {Ancestor([parent |-> parent], n, k) : k \in 1 .. NumNodes} \ {Null}

\* The scene s with the world transform w and the local position p for n and
\* the world transform v for every container above n; the subtree of n is
\* left as it is.
Elsewhere(s, n, w, p, v) ==
    [s EXCEPT !.worldTransform =
                  [x \in DOMAIN s.worldTransform |->
                      IF x = n THEN w
                      ELSE IF x \in ProperAncestors(n) THEN v
                      ELSE s.worldTransform[x]],
              !.position[n] = p]

LocalQueries == {"getLocalBounds", "width", "width=", "height", "height="}

\* The rectangle x.getBounds() returns on the scene s.
BoundsOn(s, x) ==
    LET r == objectGetBounds(s, x)
    IN  RectangleOf(r.s, r.ret)

\* Every world transform of the scene s is the one an update pass leaves:
\* the node's position and scale composed with its parent's world transform.
UpToDate(s) ==
    \A x \in DOMAIN parent :
        parent[x] # Null =>
            s.worldTransform[x] = displayObjectUpdateTransform(s, x).worldTransform[x]

\* C20: bounds queries in local space are read-only with respect to global
\* bounds.  On a tree whose world transforms are up to date, a call of
\* getLocalBounds, or a read or a write of width or height, changes the world
\* transform of no descendant of the container, and getBounds on the
\* container and on each of its descendants returns after the call the
\* rectangle it returned before it.
C20_LocalQueriesKeepGlobalBounds ==
    (call.op \in LocalQueries /\ UpToDate(before)) =>
        LET n == call.self
            tree == [children |-> children]
        IN  /\ \A x \in Descendants(tree, n) :
                   scene.worldTransform[x] = before.worldTransform[x]
            /\ \A x \in Subtree(tree, n) :
                   BoundsOn(scene, x) = BoundsOn(before, x)

\* The calls of the last render made by the container itself, and its calls
\* of the render of a child, in the order they were made.
Outline ==
    SelectSeq(call.trace,
              LAMBDA e : e.depth = 0 \/ (e.depth = 1 /\ e.ev = call.op))

\* The calls of controllers by container n, as they are recorded.
Controls(names, n) == [k \in 1 .. Len(names) |-> Event(names[k], n, 0)]

\* The render of every child of n, once, in index order.
ChildRenders(n) == [k \in 1 .. Len(children[n]) |-> Event(call.op, children[n][k], 1)]

\* The calls of stop and start of the last render, nested renders included.
BatchCalls == SelectSeq(call.trace, LAMBDA e : e.ev \in {"stop", "start"})

\* The pushes and pops of the last render, nested renders included.
StackCalls ==
    SelectSeq(call.trace,
              LAMBDA e : e.ev \in {"pushFilter", "pushMask", "popMask", "popFilter"})

\* From position k on, every pop of the calls takes what the latest push
\* that is still open has put, and no push is left open at the end.
RECURSIVE LastInFirstOut(_, _, _)
LastInFirstOut(calls, k, open) ==
    IF k > Len(calls)
    THEN open = <<>>
    ELSE LET e == calls[k]
         IN  IF e.ev \in {"pushFilter", "pushMask"}
             THEN LastInFirstOut(calls, k + 1, Append(open, e))
             ELSE /\ open # <<>>
                  /\ open[Len(open)].node = e.node
                  /\ open[Len(open)].ev = (IF e.ev = "popMask" THEN "pushMask" ELSE "pushFilter")
                  /\ LastInFirstOut(calls, k + 1, SubSeq(open, 1, Len(open) - 1))

\* The last render was of a container that is visible, not transparent and
\* not cached.
Rendered(op) ==
    /\ Traversed(op)
    /\ before.visible[call.self]
    /\ before.alpha[call.self] > 0
    /\ ~before._cacheAsBitmap[call.self]

(***************************************************************************)
(* C19.  Rendering a visible, non-transparent, non-cached container keeps  *)
(* the session stacks balanced and ordered.  In the WebGL render the calls *)
(* are [flush, pushFilter if filters], [stop, pushMask, start if mask],    *)
(* the render of every child once in index order, then stop, [popMask if   *)
(* mask], [popFilter if filters], start: the mask is popped before the     *)
(* filter, stop and start alternate, and the filter stack, the mask stack  *)
(* and the state of the batch on return are those on entry; with neither   *)
(* mask nor filters no controller is called.  In the Canvas render         *)
(* pushMask (if there is a mask) precedes the renders of the children and  *)
(* popMask follows them, and the mask stack on return is that on entry.    *)
(***************************************************************************)
C19_RenderKeepsStacksBalanced ==
    /\ Rendered("_renderWebGL") =>
           LET n == call.self
               mask == before._mask[n]
               filters == before._filters[n]
           IN  /\ Outline =
                      <<Event("_renderWebGL", n, 0)>>
                      \o Controls(IF filters THEN <<"flush", "pushFilter">> ELSE <<>>, n)
                      \o Controls(IF mask THEN <<"stop", "pushMask", "start">> ELSE <<>>, n)
                      \o ChildRenders(n)
                      \o Controls(IF mask \/ filters THEN <<"stop">> ELSE <<>>, n)
                      \o Controls(IF mask THEN <<"popMask">> ELSE <<>>, n)
                      \o Controls(IF filters THEN <<"popFilter">> ELSE <<>>, n)
                      \o Controls(IF mask \/ filters THEN <<"start">> ELSE <<>>, n)
               /\ LastInFirstOut(StackCalls, 1, <<>>)
               /\ \A k \in 1 .. Len(BatchCalls) :
                      BatchCalls[k].ev = (IF k % 2 = 1 THEN "stop" ELSE "start")
               /\ Len(BatchCalls) % 2 = 0
               /\ scene.session = before.session
    /\ Rendered("_renderCanvas") =>
           LET n == call.self
               mask == before._mask[n]
           IN  /\ Outline =
                      <<Event("_renderCanvas", n, 0)>>
                      \o Controls(IF mask THEN <<"pushMask">> ELSE <<>>, n)
                      \o ChildRenders(n)
                      \o Controls(IF mask THEN <<"popMask">> ELSE <<>>, n)
               /\ LastInFirstOut(StackCalls, 1, <<>>)
               /\ scene.session.maskStack = before.session.maskStack

\* A container with a mask, filters and two children was rendered by the
\* WebGL render, and one of the children pushed a mask of its own.
C19_Witness ==
    /\ Rendered("_renderWebGL")
    /\ before._mask[call.self] /\ before._filters[call.self]
    /\ Len(children[call.self]) >= 2
    /\ Len(EventsAt("pushMask", 1)) >= 1
    /\ Len(EventsAt("_renderWebGL", 1)) = 2

====
